---- MODULE Spec2Model ----
(***************************************************************************)
(* Model of the biased-quantile stream of src/src/lib.rs (crate quantile): *)
(* Quantile::new, Stream::observe, Stream::flush_and_compress,             *)
(* Stream::merge_and_insert, Stream::invariant and Stream::query.          *)
(* Every f64 operation of the code is computed as IEEE 754 binary64:      *)
(* the exact result rounded to nearest, ties to even (section "binary64"). *)
(* Observed values and the g of samples are small integers, which f64     *)
(* holds exactly; d is an i64.                                             *)
(***************************************************************************)
EXTENDS Integers, Sequences, FiniteSets, TLC

(* ---------------- rationals ---------------- *)
(* Exact rationals: the decimal literals given to the program.            *)
Rat(a, b) == IF b < 0 THEN [num |-> -a, den |-> -b] ELSE [num |-> a, den |-> b]

Max2(a, b) == IF a >= b THEN a ELSE b

Min2(a, b) == IF a <= b THEN a ELSE b

MaxOf(S) == CHOOSE m \in S : \A k \in S : k <= m

MinOf(S) == CHOOSE m \in S : \A k \in S : m <= k

(* ---------------- natural numbers ---------------- *)
(* Naturals of any size as little-endian sequences of 12-bit limbs with  *)
(* no trailing zero limb (zero is << >>); the exact significands and     *)
(* quotients of binary64 arithmetic.  Loops are recursive functions     *)
(* whose step is an operator applied to the previous step.               *)
LimbBits == 12

Base == 4096

NTrim(s) ==
  LET T[k \in 0..Len(s)] == IF k = 0 THEN 0 ELSE IF s[k] # 0 THEN k ELSE T[k - 1]
  IN IF s = << >> \/ s[Len(s)] # 0 THEN s ELSE SubSeq(s, 1, T[Len(s)])

NLimb(a, i) == IF i <= Len(a) THEN a[i] ELSE 0

(* 0 <= k < 2^31 *)
NFromInt(k) ==
  IF k = 0 THEN << >>
  ELSE IF k < Base THEN <<k>>
  ELSE IF k < Base * Base THEN <<k % Base, k \div Base>>
  ELSE <<k % Base, (k \div Base) % Base, k \div (Base * Base)>>

NToInt(a) == NLimb(a, 1) + NLimb(a, 2) * Base + NLimb(a, 3) * Base * Base

NCmp(a, b) ==
  IF Len(a) # Len(b) THEN (IF Len(a) < Len(b) THEN -1 ELSE 1)
  ELSE IF a = << >> THEN 0
  ELSE IF a[Len(a)] # b[Len(a)] THEN (IF a[Len(a)] < b[Len(a)] THEN -1 ELSE 1)
  ELSE LET D == {i \in DOMAIN a : a[i] # b[i]}
       IN IF D = {} THEN 0 ELSE IF a[MaxOf(D)] < b[MaxOf(D)] THEN -1 ELSE 1

(* one step of a carry loop: limb t % Base, carry t \div Base *)
CarryDigit(t, p) == [c |-> t \div Base, s |-> Append(p.s, t % Base)]

AddStep(a, b, i, p) ==
  CarryDigit(NLimb(a, i) + NLimb(b, i) + p.c, p)

NAdd(a, b) ==
  LET R[i \in 0..(Max2(Len(a), Len(b)) + 1)] ==
        IF i = 0 THEN [c |-> 0, s |-> << >>] ELSE AddStep(a, b, i, R[i - 1])
  IN NTrim(R[Max2(Len(a), Len(b)) + 1].s)

BorrowDigit(t, p) ==
  IF t < 0 THEN [c |-> 1, s |-> Append(p.s, t + Base)]
  ELSE [c |-> 0, s |-> Append(p.s, t)]

SubStep(a, b, i, p) ==
  BorrowDigit(NLimb(a, i) - NLimb(b, i) - p.c, p)

(* a - b for a >= b *)
NSub(a, b) ==
  LET R[i \in 0..Len(a)] ==
        IF i = 0 THEN [c |-> 0, s |-> << >>] ELSE SubStep(a, b, i, R[i - 1])
  IN NTrim(R[Len(a)].s)

MulSmallStep(a, k, i, p) ==
  CarryDigit(NLimb(a, i) * k + p.c, p)

(* a * k for 0 <= k < Base *)
NMulSmall(a, k) ==
  LET R[i \in 0..(Len(a) + 1)] ==
        IF i = 0 THEN [c |-> 0, s |-> << >>] ELSE MulSmallStep(a, k, i, R[i - 1])
  IN NTrim(R[Len(a) + 1].s)

NShlLimbs(a, q) == IF a = << >> THEN a ELSE [i \in 1..q |-> 0] \o a

(* acc + a * b[j] * Base^(j-1) *)
MulStep(acc, a, bj, j) ==
  IF acc = <<-1>> THEN acc ELSE NAdd(acc, NShlLimbs(NMulSmall(a, bj), j - 1))

NMul(a, b) ==
  LET P[j \in 0..Len(b)] ==
        IF j = 0 THEN << >> ELSE MulStep(P[j - 1], a, b[j], j)
  IN P[Len(b)]

NShl(a, k) == NShlLimbs(NMulSmall(a, 2 ^ (k % LimbBits)), k \div LimbBits)

(* floor(a / 2^k) *)
NShr(a, k) ==
  LET q == k \div LimbBits
      r == k % LimbBits
      s == IF q >= Len(a) THEN << >> ELSE SubSeq(a, q + 1, Len(a))
  IN NTrim([i \in 1..Len(s) |->
              s[i] \div (2 ^ r) + (NLimb(s, i + 1) % (2 ^ r)) * 2 ^ (LimbBits - r)])

(* a mod 2^k *)
NLow(a, k) ==
  LET q == k \div LimbBits
      r == k % LimbBits
  IN NTrim([i \in 1..Min2(Len(a), q + 1) |-> IF i <= q THEN a[i] ELSE a[i] % (2 ^ r)])

NPow2(k) == NShl(<<1>>, k)

SmallBits(x) == CHOOSE b \in 0..LimbBits : x < 2 ^ b /\ (b = 0 \/ 2 ^ (b - 1) <= x)

(* the bit length and the trailing zero count of each limb value *)
LimbBitsTable == [x \in 0..(Base - 1) |-> SmallBits(x)]

LimbTzTable ==
  [x \in 1..(Base - 1) |-> MinOf({b \in 0..(LimbBits - 1) : (x \div (2 ^ b)) % 2 = 1})]

NBits(a) == IF a = << >> THEN 0 ELSE LimbBits * (Len(a) - 1) + LimbBitsTable[a[Len(a)]]

(* number of trailing zero bits of a # 0 *)
NTzAt(a, i) == LimbBits * (i - 1) + LimbTzTable[a[i]]

NTz(a) == IF a[1] # 0 THEN LimbTzTable[a[1]] ELSE NTzAt(a, MinOf({j \in DOMAIN a : a[j] # 0}))

NOdd(a) == a # << >> /\ a[1] % 2 = 1

NBit(a, k) == (NLimb(a, k \div LimbBits + 1) \div (2 ^ (k % LimbBits))) % 2

(* [q |-> x \div b, r |-> x % b] for x < b * Base.  When b < 2^18 both fit *)
(* in an integer.  Otherwise, with s = NBits(b) - 18, bt = b \div 2^s and   *)
(* xt = x \div 2^s < 2^30, x / b lies in [xt / (bt + 1), (xt + 1) / bt],    *)
(* an interval shorter than 1/8: the digit is xt \div (bt + 1) or one more. *)
DivDigitFits(x, b, d) == d < Base /\ NCmp(NMulSmall(b, d), x) <= 0

DivDigitOf(x, b, d) == [q |-> d, r |-> NSub(x, NMulSmall(b, d))]

DivDigitEst(x, b, d0) ==
  DivDigitOf(x, b, IF DivDigitFits(x, b, d0 + 1) THEN d0 + 1 ELSE d0)

NDivDigit(x, b) ==
  IF NBits(b) <= 18
  THEN [q |-> NToInt(x) \div NToInt(b), r |-> NFromInt(NToInt(x) % NToInt(b))]
  ELSE DivDigitEst(x, b, NToInt(NShr(x, NBits(b) - 18))
                           \div (NToInt(NShr(b, NBits(b) - 18)) + 1))

DivLimbDone(dd, p) == [q |-> NTrim(<<dd.q>> \o p.q), r |-> dd.r]

(* bring down limb x of the dividend; the test on p.q evaluates the      *)
(* previous step first                                                   *)
DivLimbStep(p, x, b) ==
  IF p.q = <<-1>> THEN p
  ELSE DivLimbDone(NDivDigit(NAdd(NShlLimbs(p.r, 1), <<x>>), b), p)

(* [q |-> a \div b, r |-> a % b] for b # 0: long division, one limb of the  *)
(* quotient per step from the most significant limb down                    *)
NDivMod(a, b) ==
  LET R[i \in 0..Len(a)] ==
        IF i = 0 THEN [q |-> << >>, r |-> << >>]
        ELSE DivLimbStep(R[i - 1], a[Len(a) + 1 - i], b)
  IN R[Len(a)]

(* ---------------- binary64 ---------------- *)
(* A number is [k, neg, m, e]: k = "fin" for the exact value              *)
(* (-1)^neg * m * 2^e (m odd, or m = << >> for zero, which is unsigned),  *)
(* k = "inf" for an infinity of sign neg, k = "nan" for NaN.  Every f64 *)
(* is such a number with m < 2^53; i64 values use the same form.          *)
FZero == [k |-> "fin", neg |-> FALSE, m |-> << >>, e |-> 0]

FNaN == [k |-> "nan", neg |-> FALSE, m |-> << >>, e |-> 0]

FInf(neg) == [k |-> "inf", neg |-> neg, m |-> << >>, e |-> 0]

MkShift(neg, m, e, tz) == [k |-> "fin", neg |-> neg, m |-> NShr(m, tz), e |-> e + tz]

(* the number m * 2^e in canonical form (odd significand) *)
Mk(neg, m, e) == IF m = << >> THEN FZero ELSE MkShift(neg, m, e, NTz(m))

FIntOf(z) == IF z < 0 THEN Mk(TRUE, NFromInt(-z), 0) ELSE Mk(FALSE, NFromInt(z), 0)

MaxSmallInt == 1100

SmallIntTable == [z \in -2..MaxSmallInt |-> FIntOf(z)]

(* the exact f64 or i64 value of the integer z *)
FInt(z) == IF -2 <= z /\ z <= MaxSmallInt THEN SmallIntTable[z] ELSE FIntOf(z)

IsNaN(x) == x.k = "nan"

IsZero(x) == x.k = "fin" /\ x.m = << >>

(* exponent of the leading bit of a finite non-zero number *)
Top(x) == x.e + NBits(x.m) - 1

(* round-to-nearest, ties-to-even of (-1)^neg * M * 2^e to binary64,     *)
(* with gradual underflow below 2^-1022 and overflow to infinity         *)
CheckOverflow(neg, r) == IF r.m # << >> /\ Top(r) >= 1024 THEN FInf(neg) ELSE r

(* Q = M \div 2^s; h compares the dropped bits M % 2^s with half of 2^s *)
RoundUp(neg, Q, h, lsb) ==
  Mk(neg, IF h > 0 \/ (h = 0 /\ NOdd(Q)) THEN NAdd(Q, <<1>>) ELSE Q, lsb)

(* lsb: the exponent of the last significand bit kept *)
RoundAt(neg, M, e, lsb) ==
  CheckOverflow(neg,
    IF lsb <= e THEN Mk(neg, M, e)
    ELSE RoundUp(neg, NShr(M, lsb - e), NCmp(NLow(M, lsb - e), NPow2(lsb - e - 1)), lsb))

F64Round(neg, M, e) ==
  IF M = << >> THEN FZero ELSE RoundAt(neg, M, e, Max2(e + NBits(M) - 53, -1074))

FRound(x) == IF x.k = "fin" THEN F64Round(x.neg, x.m, x.e) ELSE x

(* the binary64 nearest to the rational a / b (b > 0): the decimal        *)
(* literal or parse of a / b, and the quotient of two finite numbers      *)
(* 2 * quotient + sticky bit: the rounding sees a non-zero remainder    *)
RoundQuotient(neg, dm, E) ==
  F64Round(neg, NAdd(NShl(dm.q, 1), IF dm.r = << >> THEN << >> ELSE <<1>>), E)

(* k: the scaling giving the quotient at least 55 bits *)
RoundRatScaled(neg, P, Q, E, k) == RoundQuotient(neg, NDivMod(NShl(P, k), Q), E - k - 1)

F64RoundRat(neg, P, Q, E) ==
  IF P = << >> THEN FZero
  ELSE RoundRatScaled(neg, P, Q, E, Max2(0, 55 + NBits(Q) - NBits(P)))

FromRat(r) ==
  F64RoundRat(r.num < 0, NFromInt(IF r.num < 0 THEN -r.num ELSE r.num), NFromInt(r.den), 0)

FNeg(x) == IF IsNaN(x) \/ IsZero(x) THEN x ELSE [x EXCEPT !.neg = ~x.neg]

(* exact sum of two finite numbers *)
(* A, B: the significands aligned to exponent e0; c = NCmp(A, B) *)
ExSubMag(a, b, A, B, e0, c) ==
  IF c = 0 THEN FZero
  ELSE IF c > 0 THEN Mk(a.neg, NSub(A, B), e0)
  ELSE Mk(b.neg, NSub(B, A), e0)

ExAddMag(a, b, A, B, e0) ==
  IF a.neg = b.neg THEN Mk(a.neg, NAdd(A, B), e0) ELSE ExSubMag(a, b, A, B, e0, NCmp(A, B))

ExAddAt(a, b, e0) == ExAddMag(a, b, NShl(a.m, a.e - e0), NShl(b.m, b.e - e0), e0)

ExAdd(a, b) ==
  IF IsZero(a) THEN b
  ELSE IF IsZero(b) THEN a
  ELSE ExAddAt(a, b, Min2(a.e, b.e))

(* f64 a + b.  When |b| < 2^(Top(a) - 54), half the spacing of the        *)
(* doubles just below |a|, the rounded sum is a itself.                  *)
FAdd(a, b) ==
  IF IsNaN(a) \/ IsNaN(b) THEN FNaN
  ELSE IF a.k = "inf" /\ b.k = "inf" THEN (IF a.neg = b.neg THEN a ELSE FNaN)
  ELSE IF a.k = "inf" THEN a
  ELSE IF b.k = "inf" THEN b
  ELSE IF IsZero(a) THEN b
  ELSE IF IsZero(b) THEN a
  ELSE IF Top(b) + 1 < Top(a) - 54 THEN a
  ELSE IF Top(a) + 1 < Top(b) - 54 THEN b
  ELSE FRound(ExAdd(a, b))

FSub(a, b) == FAdd(a, FNeg(b))

FMul(a, b) ==
  IF IsNaN(a) \/ IsNaN(b) THEN FNaN
  ELSE IF (a.k = "inf" /\ IsZero(b)) \/ (b.k = "inf" /\ IsZero(a)) THEN FNaN
  ELSE IF a.k = "inf" \/ b.k = "inf" THEN FInf(a.neg # b.neg)
  ELSE F64Round(a.neg # b.neg, NMul(a.m, b.m), a.e + b.e)

FDiv(a, b) ==
  IF IsNaN(a) \/ IsNaN(b) THEN FNaN
  ELSE IF (a.k = "inf" /\ b.k = "inf") \/ (IsZero(a) /\ IsZero(b)) THEN FNaN
  ELSE IF a.k = "inf" THEN FInf(a.neg # b.neg)
  ELSE IF b.k = "inf" THEN FZero
  ELSE IF IsZero(b) THEN FInf(a.neg)
  ELSE IF b.m = <<1>> THEN F64Round(a.neg # b.neg, a.m, a.e - b.e)
  ELSE F64RoundRat(a.neg # b.neg, a.m, b.m, a.e - b.e)

(* -1, 0, 1 as a <, =, > b, for non-NaN numbers *)
MagCmp(a, b) ==
  IF IsZero(a) THEN (IF IsZero(b) THEN 0 ELSE -1)
  ELSE IF IsZero(b) THEN 1
  ELSE IF Top(a) # Top(b) THEN (IF Top(a) < Top(b) THEN -1 ELSE 1)
  ELSE NCmp(NShl(a.m, a.e - Min2(a.e, b.e)), NShl(b.m, b.e - Min2(a.e, b.e)))

Sign(x) == IF IsZero(x) THEN 0 ELSE IF x.neg THEN -1 ELSE 1

FCmpSigned(a, b, sa, sb) ==
  IF sa # sb THEN (IF sa < sb THEN -1 ELSE 1)
  ELSE IF a.k = "inf" /\ b.k = "inf" THEN 0
  ELSE IF a.k = "inf" THEN sa
  ELSE IF b.k = "inf" THEN -sb
  ELSE sa * MagCmp(a, b)

FCmp(a, b) == FCmpSigned(a, b, Sign(a), Sign(b))

FLt(a, b) == ~IsNaN(a) /\ ~IsNaN(b) /\ FCmp(a, b) < 0

FLe(a, b) == ~IsNaN(a) /\ ~IsNaN(b) /\ FCmp(a, b) <= 0

FEq(a, b) == ~IsNaN(a) /\ ~IsNaN(b) /\ FCmp(a, b) = 0

(* f64::min: a NaN operand is ignored *)
FMin(a, b) == IF IsNaN(a) THEN b ELSE IF IsNaN(b) THEN a ELSE IF FLe(a, b) THEN a ELSE b

(* std::f64::MAX = (2^53 - 1) * 2^971 *)
F64Max == Mk(FALSE, NSub(NPow2(53), <<1>>), 971)

(* f64::floor *)
(* q: the magnitude with its fraction bits dropped *)
FloorOf(neg, q) == IF neg THEN Mk(TRUE, NAdd(q, <<1>>), 0) ELSE Mk(FALSE, q, 0)

FFloor(x) == IF x.k # "fin" \/ x.e >= 0 THEN x ELSE FloorOf(x.neg, NShr(x.m, -x.e))

I64Max == Mk(FALSE, NSub(NPow2(63), <<1>>), 0)

I64Min == Mk(TRUE, NPow2(63), 0)

(* `x as i64` for an integral x (a floor): saturating at i64::MIN and    *)
(* i64::MAX, NaN to 0                                                    *)
ToI64(x) ==
  IF IsNaN(x) THEN FZero
  ELSE IF FLe(Mk(FALSE, NPow2(63), 0), x) THEN I64Max
  ELSE IF FLt(x, I64Min) THEN I64Min
  ELSE x
(* ---------------- bounds and program constants ---------------- *)
BUFFER_SIZE == 500

MaxObserve == 4

MaxCalls == 2

Values == {1, 2, 3}

(* Target lists given to Stream::new: (rank, error) decimal literals.    *)
(* With the rank 0 alone, u = 2.0 * 0.1 / 0.0 is infinite: the invariant *)
(* is then infinite for r >= 0.1 * n, and `floor() as i64` saturates.     *)
TargetConfigs ==
  { << <<Rat(1, 2), Rat(1, 8)>> >>,
    << <<Rat(1, 4), Rat(3, 16)>>, <<Rat(3, 4), Rat(3, 16)>> >>,
    << <<Rat(1, 2), Rat(1, 16)>>, <<Rat(1, 2), Rat(1, 8)>> >>,
    << <<Rat(0, 1), Rat(1, 10)>> >> }

QueryRanks == {Rat(1, 4), Rat(1, 2), Rat(3, 4)}

(* the f64 values of the query arguments *)
QueryRankValues == {FromRat(q) : q \in QueryRanks}

Builds == {"debug", "release"}

(* ---------------- Quantile ---------------- *)
FOne == FInt(1)

FTwo == FInt(2)

QuantileValidNoErrorMax(value, error) ==
  /\ FLe(FZero, value)
  /\ FLe(value, FOne)
  /\ FLe(FZero, error)

(* the four assert!s of Quantile::new *)
QuantileValid(value, error) ==
  /\ FLe(FZero, value)
  /\ FLe(value, FOne)
  /\ FLe(FZero, error)
  /\ FLe(error, FOne)

(* u = 2.0 * error / value; v = 2.0 * error / (1.0 - value) *)
MkQuantile(value, error) ==
  [value |-> value, error |-> error,
   u |-> FDiv(FMul(FTwo, error), value),
   v |-> FDiv(FMul(FTwo, error), FSub(FOne, value))]

NewTargets(cfg) ==
  [k \in 1..Len(cfg) |-> MkQuantile(FromRat(cfg[k][1]), FromRat(cfg[k][2]))]

(* ---------------- Stream::invariant ---------------- *)
(* fj for one target; n is number_items, converted exactly to f64 *)
Candidate(t, n, r) ==
  IF FLt(r, FMul(t.error, FInt(n)))
  THEN FMul(t.v, FSub(FInt(n), r))
  ELSE FMul(t.u, r)

(* min = f64::MAX; for target in targets: min = f64::min(min, fj) *)
(* one round of the loop: min = f64::min(min, fj) *)
InvariantStep(min, t, n, r) ==
  IF min.k = "nan" THEN Candidate(t, n, r) ELSE FMin(min, Candidate(t, n, r))

RECURSIVE InvariantFrom(_, _, _, _, _)
InvariantFrom(targets, n, r, k, min) ==
  IF k > Len(targets) THEN min
  ELSE InvariantFrom(targets, n, r, k + 1, InvariantStep(min, targets[k], n, r))

Invariant(targets, n, r) == InvariantFrom(targets, n, r, 1, F64Max)

(* ---------------- Stream::merge_and_insert ---------------- *)
(* prev.g + current.g + current.d as f64 <= self.invariant(prev_r); the  *)
(* g of samples and prev_r are integral f64 values, held as integers.   *)
MergeCond(targets, n, prev, cur, pr) ==
  FLe(FAdd(FAdd(FInt(prev.g), FInt(cur.g)), FRound(cur.d)), Invariant(targets, n, FInt(pr)))

MergeAndInsertDropG(targets, n, new, cur, pr) ==
  IF new = << >> THEN [new |-> <<cur>>, pr |-> pr]
  ELSE LET prev == new[Len(new)]
       IN IF MergeCond(targets, n, prev, cur, pr)
          THEN [new |-> [new EXCEPT ![Len(new)] =
                          [v |-> cur.v, g |-> cur.g, d |-> cur.d]],
                pr |-> pr]
          ELSE [new |-> Append(new, cur), pr |-> pr + prev.g]

MergeAndInsert(targets, n, new, cur, pr) ==
  IF new = << >> THEN [new |-> <<cur>>, pr |-> pr]
  ELSE LET prev == new[Len(new)]
       IN IF MergeCond(targets, n, prev, cur, pr)
          THEN [new |-> [new EXCEPT ![Len(new)] =
                          [v |-> cur.v, g |-> prev.g + cur.g, d |-> cur.d]],
                pr |-> pr]
          ELSE [new |-> Append(new, cur), pr |-> pr + prev.g]

(* ---------------- Stream::flush_and_compress ---------------- *)
(* Sequential loops are folds evaluated by halving, so that the recursion *)
(* depth stays logarithmic; the steps are applied in the loops' order.    *)
(* The IF on the first half's result makes TLC evaluate it before the     *)
(* second half rather than as a chain of deferred arguments.              *)
Min(S) == CHOOSE m \in S : \A k \in S : m <= k

Range(s) == {s[k] : k \in DOMAIN s}

SortBufferSkipped(s) == s

(* self.buffer.sort_by(partial_cmp): the ascending permutation of buffer *)
SortBuffer(s) ==
  [i \in 1..Len(s) |->
     CHOOSE x \in Range(s) :
       /\ Cardinality({j \in 1..Len(s) : s[j] < x}) < i
       /\ i <= Cardinality({j \in 1..Len(s) : s[j] <= x})]

(* merge_and_insert applied to each sample of cs in turn *)
RECURSIVE MergeAll(_, _, _, _)
(* left: the result for cs[1..h], from which the rest continues *)
MergeAllRest(targets, n, cs, h, left) ==
  IF left.new = << >> THEN left
  ELSE MergeAll(targets, n, SubSeq(cs, h + 1, Len(cs)), left)

MergeAll(targets, n, cs, acc) ==
  IF Len(cs) = 0 THEN acc
  ELSE IF Len(cs) = 1 THEN MergeAndInsert(targets, n, acc.new, cs[1], acc.pr)
  ELSE MergeAllRest(targets, n, cs, Len(cs) \div 2,
                    MergeAll(targets, n, SubSeq(cs, 1, Len(cs) \div 2), acc))

(* while idx < samples.len() && samples[idx].v <= value: merge_and_insert; *)
(* toEnd: the trailing "values after last insertion" loop.                *)
CatchUpDone(st, stop, m) == [st EXCEPT !.idx = stop, !.pr = m.pr, !.new = m.new]

(* stop: the last sample index merged *)
CatchUpTo(targets, old, st, stop) ==
  CatchUpDone(st, stop, MergeAll(targets, st.n, SubSeq(old, st.idx + 1, stop),
                                 [new |-> st.new, pr |-> st.pr]))

CatchUp(targets, old, toEnd, value, st) ==
  LET J == {j \in (st.idx + 1)..Len(old) : old[j].v > value}
  IN CatchUpTo(targets, old, st, IF toEnd \/ J = {} THEN Len(old) ELSE Min(J) - 1)

NewDeltaOffByOne(targets, old, st) ==
  IF st.idx = 0 \/ st.idx = Len(old) THEN FZero
  ELSE ExAdd(ToI64(FFloor(Invariant(targets, st.n,
                                    FAdd(FInt(st.pr), FInt(old[st.idx + 1].g))))),
             FInt(-2))

(* new_sample.d: 0 at either end, else                                   *)
(* self.invariant(prev_r + samples[idx].g).floor() as i64 - 1.  The      *)
(* invariant is >= 0 (the min of f64::MAX and of products of             *)
(* non-negative factors), so the i64 subtraction cannot overflow.        *)
NewDelta(targets, old, st) ==
  IF st.idx = 0 \/ st.idx = Len(old) THEN FZero
  ELSE ExAdd(ToI64(FFloor(Invariant(targets, st.n,
                                    FAdd(FInt(st.pr), FInt(old[st.idx + 1].g))))),
             FInt(-1))

(* one iteration of `for value in self.buffer.iter()` *)
InsertDone(s1, m) == [s1 EXCEPT !.pr = m.pr, !.new = m.new, !.n = @ + 1]

(* s1: the state after the samples <= value were merged *)
InsertNew(targets, old, value, s1) ==
  InsertDone(s1, MergeAndInsert(targets, s1.n, s1.new,
                                [v |-> value, g |-> 1, d |-> NewDelta(targets, old, s1)],
                                s1.pr))

InsertValue(targets, old, value, st) ==
  InsertNew(targets, old, value, CatchUp(targets, old, FALSE, value, st))

RECURSIVE FoldValues(_, _, _, _)
FoldValuesRest(targets, old, bs, h, left) ==
  IF left.new = << >> THEN left
  ELSE FoldValues(targets, old, SubSeq(bs, h + 1, Len(bs)), left)

FoldValues(targets, old, bs, st) ==
  IF Len(bs) = 0 THEN st
  ELSE IF Len(bs) = 1 THEN InsertValue(targets, old, bs[1], st)
  ELSE FoldValuesRest(targets, old, bs, Len(bs) \div 2,
                      FoldValues(targets, old, SubSeq(bs, 1, Len(bs) \div 2), st))

(* fin: the state after the last loop; buffer.clear() *)
FlushDone(fin) == [samples |-> fin.new, n |-> fin.n, buffer |-> << >>]

FlushAndCompressNoEmptyCheck(targets, samples, buffer, n) ==
  FlushDone(CatchUp(targets, samples, TRUE, 0,
                    FoldValues(targets, samples, SortBuffer(buffer),
                               [idx |-> 0, pr |-> 0, new |-> << >>, n |-> n])))

FlushAndCompress(targets, samples, buffer, n) ==
  IF buffer = << >> THEN [samples |-> samples, n |-> n, buffer |-> buffer]
  ELSE FlushDone(CatchUp(targets, samples, TRUE, 0,
                         FoldValues(targets, samples, SortBuffer(buffer),
                                    [idx |-> 0, pr |-> 0, new |-> << >>, n |-> n])))

(* ---------------- Stream::query ---------------- *)
TrackedCountLe(targets, q) == Cardinality({k \in 1..Len(targets) : FLe(targets[k].value, q)})

TrackedCount(targets, q) == Cardinality({k \in 1..Len(targets) : FEq(targets[k].value, q)})

RECURSIVE SumG(_)
SumG(ss) ==
  IF Len(ss) = 0 THEN 0
  ELSE IF Len(ss) = 1 THEN ss[1].g
  ELSE LET h == Len(ss) \div 2
       IN SumG(SubSeq(ss, 1, h)) + SumG(SubSeq(ss, h + 1, Len(ss)))

(* r + current.g + current.d as f64 > t, with r the (integral) sum of   *)
(* the g of the samples before current                                   *)
ScanHit(t, r, cur) == FLt(t, FAdd(FAdd(FInt(r), FInt(cur.g)), FRound(cur.d)))

(* the iterations whose test holds *)
ScanHits(samples, t) ==
  {i \in 1..(Len(samples) - 2) : ScanHit(t, SumG(SubSeq(samples, 1, i)), samples[i + 1])}

QueryPickCurrent(samples, hit) ==
  IF hit = {} THEN samples[Len(samples)].v ELSE samples[Min(hit) + 1].v

QueryScanCurrent(samples, t) == QueryPickCurrent(samples, ScanHits(samples, t))

(* for i in 1..samples.len() - 1 { r += samples[i-1].g; if r + g + d > t *)
(* { return samples[i-1].v } }; samples.last().v  (1-based indices here)  *)
QueryPick(samples, hit) ==
  IF hit = {} THEN samples[Len(samples)].v ELSE samples[Min(hit)].v

QueryScan(samples, t) == QueryPick(samples, ScanHits(samples, t))

(* t = quantile * n + self.invariant(quantile * n) / 2.0 *)
QueryTargetAt(targets, n, qn) == FAdd(qn, FDiv(Invariant(targets, n, qn), FTwo))

QueryTarget(targets, n, q) == QueryTargetAt(targets, n, FMul(q, FInt(n)))

QueryValue(targets, samples, n, q) ==
  IF samples = << >> THEN 0
  ELSE QueryScan(samples, QueryTarget(targets, n, q))

(* ---------------- state machine ---------------- *)
VARIABLES targets, samples, new_samples, number_items, buffer,
          build, panicked, lastOp, lastQ, history, calls, made

vars == <<targets, samples, new_samples, number_items, buffer,
          build, panicked, lastOp, lastQ, history, calls, made>>

NoQuery == [q |-> FZero, status |-> "none", result |-> 0]

NoQuantile == [value |-> Rat(0, 1), error |-> Rat(0, 1), status |-> "none"]

InitWith(configs, builds) ==
  /\ \E cfg \in configs : targets = NewTargets(cfg)
  /\ samples = << >>
  /\ new_samples = << >>
  /\ number_items = 0
  /\ buffer = << >>
  /\ build \in builds
  /\ panicked = FALSE
  /\ lastOp = "init"
  /\ lastQ = NoQuery
  /\ history = << >>
  /\ calls = 0
  /\ made = NoQuantile

Init == InitWith(TargetConfigs, Builds)

(* std::mem::swap(&mut self.samples, &mut self.new_samples) leaves the    *)
(* old samples in the scratch vector; new_samples.clear() then empties it *)
ClearScratch(scratch) == SubSeq(scratch, 1, 0)

(* the state after flush_and_compress returned f *)
Flushed(f) ==
  /\ samples' = f.samples
  /\ number_items' = f.n
  /\ buffer' = f.buffer
  /\ new_samples' = ClearScratch(samples)

DoFlush == Flushed(FlushAndCompress(targets, samples, buffer, number_items))

BufferFullPastSize(buf) == Len(buf) > BUFFER_SIZE

BufferFull(buf) == Len(buf) = BUFFER_SIZE

ObserveStep(x) ==
  /\ ~panicked
  /\ history' = Append(history, x)
  /\ IF BufferFull(Append(buffer, x))
     THEN Flushed(FlushAndCompress(targets, samples, Append(buffer, x), number_items))
     ELSE /\ buffer' = Append(buffer, x)
          /\ UNCHANGED <<samples, number_items, new_samples>>
  /\ lastOp' = "observe"
  /\ calls' = 0
  /\ UNCHANGED <<targets, build, panicked, lastQ, made>>

Observe ==
  /\ Len(history) < MaxObserve
  /\ \E x \in Values : ObserveStep(x)

Flush ==
  /\ ~panicked
  /\ calls < MaxCalls
  /\ DoFlush
  /\ lastOp' = "flush"
  /\ calls' = calls + 1
  /\ UNCHANGED <<targets, build, panicked, lastQ, history, made>>

QueryStep(q) ==
  /\ ~panicked
  /\ calls < MaxCalls
  /\ lastOp' = "query"
  /\ calls' = calls + 1
  /\ IF build = "debug" /\ TrackedCount(targets, q) # 1
     THEN /\ panicked' = TRUE
          /\ lastQ' = [q |-> q, status |-> "panic", result |-> 0]
          /\ UNCHANGED <<samples, new_samples, number_items, buffer>>
     ELSE /\ DoFlush
          /\ panicked' = FALSE
          /\ lastQ' = [q |-> q, status |-> "ok",
                       result |-> QueryValue(targets, samples', number_items', q)]
  /\ UNCHANGED <<targets, build, history, made>>

Query == \E q \in QueryRankValues : QueryStep(q)

Next == Observe \/ Flush \/ Query

Spec == Init /\ [][Next]_vars

(* ---------------- Quantile::new on its own ---------------- *)
RankInputs ==
  {Rat(-1, 2), Rat(-1, 16), Rat(0, 1), Rat(1, 16), Rat(1, 4),
   Rat(1, 2), Rat(3, 4), Rat(1, 1), Rat(17, 16), Rat(3, 2)}

ErrorInputs == RankInputs

(* the literals with their f64 values *)
RankValues == {[lit |-> r, f |-> FromRat(r)] : r \in RankInputs}

ErrorValues == RankValues

(* Quantile::new(value, error): value and error carry the literal and   *)
(* its f64 value                                                        *)
NewQuantile(a, b) ==
  /\ made' = IF QuantileValid(a.f, b.f)
             THEN [value |-> a.lit, error |-> b.lit, status |-> "ok"]
             ELSE [value |-> a.lit, error |-> b.lit, status |-> "panic"]
  /\ UNCHANGED <<targets, samples, new_samples, number_items, buffer,
                 build, panicked, lastOp, lastQ, history, calls>>

InitQ == InitWith({<< <<Rat(1, 2), Rat(1, 8)>> >>}, {"debug"})

NextQ == \E a \in RankValues, b \in ErrorValues : NewQuantile(a, b)

SpecQ == InitQ /\ [][NextQ]_vars

(* ---------------- the crate documentation usage example ---------------- *)
ExampleN == 100

ExampleTargets == << <<Rat(1, 2), Rat(1, 200)>>, <<Rat(9, 10), Rat(1, 200)>> >>

ExampleRankValues == {FromRat(Rat(1, 2)), FromRat(Rat(9, 10))}

Init7 == InitWith({ExampleTargets}, Builds)

Observe7 ==
  /\ Len(history) < ExampleN
  /\ ObserveStep(Len(history) + 1)

Query7 ==
  /\ Len(history) = ExampleN
  /\ \E q \in ExampleRankValues : QueryStep(q)

Next7 == Observe7 \/ Query7

Spec7 == Init7 /\ [][Next7]_vars

(* ---------------- long runs reaching the buffer threshold ---------------- *)
MaxObserve10 == 501

Init10 == InitWith({<< <<Rat(1, 2), Rat(1, 8)>> >>}, {"release"})

(* history lengths at which the long runs call flush or query *)
FlushPoints10 == {1, 250, 500, 501}

Observe10 ==
  /\ Len(history) < MaxObserve10
  /\ ObserveStep(1)

Next10 ==
  \/ Observe10
  \/ Len(history) \in FlushPoints10 /\ Flush
  \/ Len(history) \in FlushPoints10 /\ Query

Spec10 == Init10 /\ [][Next10]_vars

(* ======================= properties ======================= *)
CountRank(q) == Cardinality({k \in 1..Len(targets) : FEq(targets[k].value, q)})

(* the exact rational value of a binary64 whose exponent is small *)
(* exact arithmetic of the properties: x * k for an integer k >= 0, and  *)
(* the integer value of an integral number (|x| < 2^36)                   *)
ExMulInt(x, k) == IF k = 0 \/ IsZero(x) THEN FZero ELSE Mk(x.neg, NMul(x.m, NFromInt(k)), x.e)

IntOfF(x) == (IF x.neg THEN -1 ELSE 1) * NToInt(NShl(x.m, x.e))

Asked == lastOp = "query" /\ lastQ.status # "none"

(* C1 (original): a query for a rank that is not one of the configured   *)
(* target ranks fails, in debug and in release builds.                   *)
C1_UntrackedQueryFails ==
  (Asked /\ CountRank(lastQ.q) = 0) => lastQ.status = "panic"

(* C1 (amended): query(q) for a rank q that is not the rank of any       *)
(* configured target panics in debug builds, and in release builds does  *)
(* not fail but returns a value.                                         *)
C1_DebugOnlyRankCheck ==
  (Asked /\ CountRank(lastQ.q) = 0) => (lastQ.status = "panic" <=> build = "debug")

C1_Witness == Asked /\ build = "release" /\ CountRank(lastQ.q) = 0 /\ lastQ.status = "ok"

(* C2: Quantile::new succeeds iff 0 <= rank <= 1 and 0 <= error <= 1,    *)
(* and fails otherwise.                                                  *)
C2_QuantileNewValidation ==
  made.status # "none" =>
    (made.status = "ok" <=>
       /\ made.value.num >= 0 /\ made.value.num <= made.value.den
       /\ made.error.num >= 0 /\ made.error.num <= made.error.den)

C2_Witness == made.status = "panic" /\ made.value.num >= 0 /\ made.value.num <= made.value.den
                /\ made.error.num > made.error.den

(* C3: the samples of the summary are non-decreasing in value.           *)
C3_SamplesSorted ==
  \A i \in 1..(Len(samples) - 1) : samples[i].v <= samples[i + 1].v

C3_Witness ==
  /\ lastOp = "flush" /\ Len(samples) >= 3
  /\ \E i, j \in 1..Len(history) : i < j /\ history[i] > history[j]

(* C4: the g of the samples sum to number_items, and number_items plus   *)
(* the buffered values equal the number of observe calls.                *)
C4_CountsConserved ==
  /\ SumG(samples) = number_items
  /\ number_items + Len(buffer) = Len(history)

C4_Witness == Len(samples) < number_items /\ buffer # << >>

(* C5 (code_bug): on a stream that never observed, query of a configured *)
(* rank returns 0.0 and does not fail.                                   *)
C5_EmptyQueryZero ==
  (Asked /\ history = << >> /\ CountRank(lastQ.q) >= 1)
    => (lastQ.status = "ok" /\ lastQ.result = 0)

(* C6 (code_bug): after exactly one observe(x), query of every configured *)
(* rank returns x.                                                       *)
C6_SingleObservation ==
  (Asked /\ Len(history) = 1 /\ CountRank(lastQ.q) >= 1)
    => (lastQ.status = "ok" /\ lastQ.result = history[1])

(* C7: targets (0.5, 0.005) and (0.9, 0.005) fed 1..100 in order: query  *)
(* of 0.5 returns 50 and query of 0.9 returns 90.                        *)
C7_UsageExample ==
  (Asked /\ Len(history) = ExampleN)
    => /\ lastQ.status = "ok"
       /\ FEq(lastQ.q, FromRat(Rat(1, 2))) => lastQ.result = 50
       /\ FEq(lastQ.q, FromRat(Rat(9, 10))) => lastQ.result = 90

C7_Witness == Asked /\ Len(history) = ExampleN /\ FEq(lastQ.q, FromRat(Rat(9, 10))) /\ lastQ.status = "ok"

(* C8 (code_bug): for each configured target (q, e), query(q) lies       *)
(* between sorted[floor(n(q-e))] and sorted[floor(n(q+e))] of the        *)
(* observed values (where both indices are in range).                    *)
SortedHistory ==
  [i \in 1..Len(history) |->
     CHOOSE x \in Range(history) :
       /\ Cardinality({j \in 1..Len(history) : history[j] < x}) < i
       /\ i <= Cardinality({j \in 1..Len(history) : history[j] <= x})]

C8_WithinRankError ==
  (Asked /\ lastQ.status = "ok" /\ history # << >>)
    => \A k \in 1..Len(targets) :
         FEq(targets[k].value, lastQ.q) =>
           LET n == Len(history)
               lo == IntOfF(FFloor(ExMulInt(ExAdd(lastQ.q, FNeg(targets[k].error)), n)))
               hi == IntOfF(FFloor(ExMulInt(ExAdd(lastQ.q, targets[k].error), n)))
           IN (0 <= lo /\ hi < n) =>
                /\ SortedHistory[lo + 1] <= lastQ.result
                /\ lastQ.result <= SortedHistory[hi + 1]

(* C9: with an empty buffer (no observe since the last flush), flush and *)
(* query leave samples, number_items and buffer unchanged, and a repeated *)
(* query of the same rank returns the same value.                        *)
C9_FlushQueryIdempotent ==
  [][ /\ (buffer = << >> /\ lastOp' \in {"flush", "query"})
           => /\ samples' = samples
              /\ number_items' = number_items
              /\ buffer' = buffer
              /\ new_samples' = new_samples
      /\ (lastOp = "query" /\ lastOp' = "query" /\ lastQ.status = "ok"
          /\ lastQ'.status = "ok" /\ FEq(lastQ.q, lastQ'.q))
           => lastQ'.result = lastQ.result ]_vars

C9_Witness == calls = 2 /\ lastOp = "query" /\ Len(samples) >= 2 /\ lastQ.status = "ok"

(* C10: after every observe, flush or query the buffer holds fewer than  *)
(* BUFFER_SIZE values; every flush (explicit, forced by query, or run by *)
(* observe when the buffer reaches BUFFER_SIZE) merges the whole buffer   *)
(* and leaves it and the scratch vector empty; whenever values are       *)
(* merged the buffer is emptied (never partially flushed).               *)
C10_BufferBounded ==
  [][ /\ Len(buffer') < BUFFER_SIZE
      /\ (lastOp' = "observe" /\ Len(buffer) + 1 = BUFFER_SIZE)
           => /\ buffer' = << >>
              /\ new_samples' = << >>
              /\ number_items' = number_items + BUFFER_SIZE
      /\ (lastOp' = "flush" \/ (lastOp' = "query" /\ ~panicked'))
           => /\ buffer' = << >>
              /\ new_samples' = << >>
              /\ number_items' = number_items + Len(buffer)
      /\ number_items' # number_items => buffer' = << >> ]_vars

C10_Witness == lastOp = "observe" /\ buffer = << >> /\ number_items >= BUFFER_SIZE

(* C11 (original): every sample of the summary has delta >= 0.           *)
C11_DeltaNonNegative == \A i \in 1..Len(samples) : FLe(FZero, samples[i].d)

(* C11 (amended): every sample has delta >= -1: an interior insertion    *)
(* takes floor(invariant) - 1 with a non-negative invariant, and a merge *)
(* adopts the incoming sample's delta.                                   *)
C11_DeltaAtLeastMinusOne == \A i \in 1..Len(samples) : FLe(FInt(-1), samples[i].d)

C11_Witness == \E i \in 1..Len(samples) : samples[i].d = FInt(-1)

====
